---------------------------- MODULE Spec2Model ----------------------------
(***************************************************************************)
(* A model of the Lexicon word service (src/src/lexicon.cpp, lexicon.h)    *)
(* and of the AssetManager loaders that fill it (src/src/AssetManager.cpp).*)
(*                                                                         *)
(* A std::string is a sequence of one-character strings.  A Trie is a      *)
(* record of the object's fields: root (a node id), the heap of TrieNodes  *)
(* it owns (children and isEndOfWord, indexed by node id, node ids being   *)
(* handed out by `new TrieNode()` in allocation order) and the word set.   *)
(* A node's children map is the set of its <<character, child>> entries.   *)
(***************************************************************************)
EXTENDS Integers, Sequences, FiniteSets, TLC

VARIABLES
    instance,         \* Lexicon::instance: NULL or the id of the Lexicon object
    created,          \* number of Lexicon objects constructed so far
    trie,             \* Lexicon::trie, the dictionary Trie
    nsfwTrie,         \* Lexicon::nsfwTrie, the profanity Trie
    prefixList,       \* AssetManager::prefixList (lexicon.cpp's `prefixes`)
    dictionaryWords,  \* AssetManager::dictionaryWords
    nsfwList,         \* AssetManager::nsfwList
    hist,             \* history: the words passed to Trie::insert, per trie
    inserts,          \* number of direct Trie::insert calls made so far
    call,             \* the operation last called, its arguments and result
    undoStack,        \* UndoRedoManager::undoStack, the oldest action first
    redoStack,        \* UndoRedoManager::redoStack, the oldest action first
    mVar,             \* the variable the recorded UndoActions refer to
    component,        \* whether the entity has the component that is removed
    last              \* history: the UndoRedoManager operation last called

\* the variables of the word service and those of the editor
lexiconVars == <<instance, created, trie, nsfwTrie, prefixList, dictionaryWords,
                 nsfwList, hist, inserts, call>>
editorVars == <<undoStack, redoStack, mVar, component, last>>

vars == <<lexiconVars, editorVars>>

-----------------------------------------------------------------------------
(* Bounds of the model *)

\* longest word handed to a direct Trie::insert
MaxWordLen == 2
\* direct Trie::insert calls in a behaviour of TrieSpec
MaxTrieInserts == 2
\* longest raw text handed to checkUserWord / isNsfwWord
MaxRawLen == 2
\* largest MinAmount handed to CheckPrefixHasMinimumWords (besides MinWords)
MaxMinAmount == 4
\* largest length handed to GeneratePrefixFromRandomWord
MaxGenLen == 3
\* largest value rand() returns to getRandomPrefix
MaxRand == 3
\* longest text handed to countLetters (besides the documented example)
MaxCountLen == 2
\* a component removal is recorded on an undo stack of fewer than this many
\* actions
MaxRemovalDepth == 1
\* largest small word set size of DrawSpec (besides MinWords and the sizes
\* about RAND_MAX)
MaxDrawSize == 19

-----------------------------------------------------------------------------
(* Characters and strings *)

NULL == 0

Lower == {"a", "b", "c", "d", "e", "g", "o", "r", "t"}
Upper == {"A", "B", "C", "D", "T"}
Space == {" ", "\t"}
Quote == "\""
Digit == {"1"}
Punct == {"!"}
\* a byte above 0x7F (here the Latin-1 byte of e-acute), negative as a char
HighByte == {"0xE9"}
Char  == Lower \cup Upper \cup Space \cup {Quote} \cup Digit \cup Punct \cup HighByte

\* std::isspace on the characters of the model
isspace(c) == c \in Space

\* ::tolower on the characters of the model
tolower(c) ==
    CASE c = "A" -> "a"
      [] c = "B" -> "b"
      [] c = "C" -> "c"
      [] c = "D" -> "d"
      [] c = "T" -> "t"
      [] OTHER   -> c

\* std::transform(s.begin(), s.end(), s.begin(), ::tolower)
ToLowerStr(s) == [i \in 1..Len(s) |-> tolower(s[i])]

SetMin(S) == CHOOSE x \in S : \A y \in S : x <= y
SetMax(S) == CHOOSE x \in S : \A y \in S : x >= y

\* All strings over alphabet A of length at most n
RECURSIVE StringsUpTo(_, _)
StringsUpTo(A, n) ==
    IF n = 0 THEN {<<>>}
    ELSE LET shorter == StringsUpTo(A, n - 1)
         IN  shorter \cup {Append(s, c) : s \in shorter, c \in A}

\* trim: the substring from the first to the last non-space character
trim_LeadingOnly(str) ==
    LET nonspace == {i \in 1..Len(str) : ~isspace(str[i])}
    IN  IF nonspace = {} THEN <<>>
        ELSE SubSeq(str, SetMin(nonspace), Len(str))
trim(str) ==
    LET nonspace == {i \in 1..Len(str) : ~isspace(str[i])}
    IN  IF nonspace = {} THEN <<>>
        ELSE SubSeq(str, SetMin(nonspace), SetMax(nonspace))

\* word.erase(remove(word.begin(), word.end(), '"'), word.end())
RECURSIVE RemoveQuotes(_)
RemoveQuotes(s) ==
    IF s = <<>> THEN <<>>
    ELSE IF Head(s) = Quote THEN RemoveQuotes(Tail(s))
         ELSE <<Head(s)>> \o RemoveQuotes(Tail(s))

\* std::string::find(prefix): the first position (from 0) at which prefix
\* occurs in word, npos (-1 here) when it occurs nowhere
StrFind(word, prefix) ==
    LET at == {i \in 0..(Len(word) - Len(prefix)) :
                 SubSeq(word, i + 1, i + Len(prefix)) = prefix}
    IN  IF at = {} THEN -1 ELSE SetMin(at)

-----------------------------------------------------------------------------
(* TrieNode and Trie *)

\* TrieNode::TrieNode(): no children, isEndOfWord(false)
TrieNode_FlagSet == [children |-> {}, isEndOfWord |-> TRUE]
TrieNode == [children |-> {}, isEndOfWord |-> FALSE]

\* Trie::Trie(): root = new TrieNode(); the word set starts empty
NewTrie ==
    [root |-> 1, children |-> <<TrieNode.children>>,
     isEndOfWord |-> <<TrieNode.isEndOfWord>>, words |-> {}]

\* A Trie member of a Lexicon that was never constructed
NoTrie == [root |-> NULL, children |-> <<>>, isEndOfWord |-> <<>>, words |-> {}]

\* node->children.find(c): the entries of node's map under key c
Find(t, node, c) == {p \in t.children[node] : p[1] = c}

\* node->children[c] for a key that is present
Child(t, node, c) == (CHOOSE p \in Find(t, node, c) : TRUE)[2]

\* node->children[c] = new TrieNode()
AddChild_Shared(t, node, c) ==
    [t EXCEPT !.children[node] = @ \cup {<<c, Len(t.children)>>}]
AddChild(t, node, c) ==
    LET new == Len(t.children) + 1
    IN  [t EXCEPT !.children = Append([@ EXCEPT ![node] = @ \cup {<<c, new>>}],
                                      TrieNode.children),
                  !.isEndOfWord = Append(@, TrieNode.isEndOfWord)]

\* node->children[c] as std::unordered_map::operator[] leaves the trie: a key
\* that is absent is added with a value-initialized (null) pointer
Subscript_AlwaysNew(t, node, c) == AddChild(t, node, c)
Subscript(t, node, c) ==
    IF Find(t, node, c) = {}
    THEN [t EXCEPT !.children[node] = @ \cup {<<c, NULL>>}]
    ELSE t

\* the end of Trie::insert: node->isEndOfWord = true; words.insert(word)
MarkEnd_NoFlag(t, node, word) == [t EXCEPT !.words = @ \cup {word}]
MarkEnd_NoWord(t, node, word) == [t EXCEPT !.isEndOfWord[node] = TRUE]
MarkEnd_Toggle(t, node, word) ==
    [t EXCEPT !.isEndOfWord[node] = ~@, !.words = @ \cup {word}]
MarkEnd_LastWord(t, node, word) ==
    [t EXCEPT !.isEndOfWord[node] = TRUE, !.words = {word}]
MarkEnd(t, node, word) ==
    [t EXCEPT !.isEndOfWord[node] = TRUE, !.words = @ \cup {word}]

\* the loop of Trie::insert from character i of word on
RECURSIVE insertFrom(_, _, _, _)
insertFrom(t, node, word, i) ==
    IF i > Len(word) THEN MarkEnd(t, node, word)
    ELSE IF Find(t, node, word[i]) = {}
         THEN LET t2 == AddChild(t, node, word[i])
              IN  insertFrom(t2, Child(t2, node, word[i]), word, i + 1)
         ELSE insertFrom(t, Child(t, node, word[i]), word, i + 1)

\* Trie::insert
insert(t, word) == insertFrom(t, t.root, word, 1)

\* the loop of Trie::search and its final test of isEndOfWord
RECURSIVE searchFrom(_, _, _, _)
searchFrom(t, node, word, i) ==
    IF i > Len(word) THEN t.isEndOfWord[node]
    ELSE IF Find(t, node, word[i]) = {} THEN FALSE
         ELSE searchFrom(t, Child(t, node, word[i]), word, i + 1)

\* Trie::search
search(t, word) == searchFrom(t, t.root, word, 1)

\* the loop of Trie::startsWith
RECURSIVE startsWithFrom(_, _, _, _)
startsWithFrom(t, node, prefix, i) ==
    IF i > Len(prefix) THEN TRUE
    ELSE IF Find(t, node, prefix[i]) = {} THEN FALSE
         ELSE startsWithFrom(t, Child(t, node, prefix[i]), prefix, i + 1)

\* Trie::startsWith
startsWith(t, prefix) == startsWithFrom(t, t.root, prefix, 1)

\* the trie as the loop of Trie::search, or of Trie::startsWith, leaves it:
\* children.find(c) first, children[c] only for a key that was found
RECURSIVE visitFrom(_, _, _, _)
visitFrom(t, node, word, i) ==
    IF i > Len(word) THEN t
    ELSE IF Find(t, node, word[i]) = {} THEN t
         ELSE visitFrom(Subscript(t, node, word[i]), Child(t, node, word[i]), word, i + 1)

\* the Trie after search(word) or startsWith(word) has run on it
visit(t, word) == visitFrom(t, t.root, word, 1)

-----------------------------------------------------------------------------
(* The record of the operation last called *)

\* pc is "done" once the operation has returned, "loop" while it is inside
\* its loop, "crashed" when undefined behaviour ended the process and "ended"
\* when the object was destroyed (no step follows either); local holds the local variables of the operation a property
\* refers to
Idle == [op |-> "none", arg |-> <<>>, ret |-> <<>>, pc |-> "done", local |-> <<>>]

Returned(op, arg, ret) ==
    [op |-> op, arg |-> arg, ret |-> ret, pc |-> "done", local |-> <<>>]

\* single-threaded: an operation starts only when none is running, that is,
\* after the caller has taken the result of the one before
NoCallRunning == call = Idle

\* the caller takes the result of the operation that has returned
Return ==
    /\ call.op # "none"
    /\ call.pc = "done"
    /\ call' = Idle
    /\ UNCHANGED <<instance, created, trie, nsfwTrie, prefixList, dictionaryWords,
                   nsfwList, hist, inserts, editorVars>>

\* the end of Trie::clear(node): after the loop over node's children has
\* released them, delete node
DeleteNode_BeforeChildren(released, node) == <<node>> \o released
DeleteNode(released, node) == released \o <<node>>

\* Trie::clear(node): the possible orders in which the nodes below and
\* including node are deleted; the iteration order of an unordered_map is
\* unspecified, so every order of the children is possible
RECURSIVE clear(_, _)
RECURSIVE clearChildren(_, _)
clearChildren(t, entries) ==
    IF entries = {} THEN {<<>>}
    ELSE UNION {{first \o others : first \in clear(t, pair[2]),
                                   others \in clearChildren(t, entries \ {pair})} :
                pair \in entries}
clear(t, node) ==
    IF node = NULL THEN {<<>>}
    ELSE {DeleteNode(released, node) : released \in clearChildren(t, t.children[node])}

-----------------------------------------------------------------------------
(* The editor's UndoRedoManager (src/src/UndoSystem.h) *)

\* UndoRedoManager::MAX_UNDO_REDO
MAX_UNDO_REDO == 100

\* UndoAction<bool>(entity, componentName, varName, var, prevValue, newValue)
UndoAction(prevValue, newValue) ==
    [type |-> "UndoAction", mPrevValue |-> prevValue, mNewValue |-> newValue]

\* UndoRemoveComponent<T>(entity, removedComponent)
UndoRemoveComponent == [type |-> "UndoRemoveComponent"]

\* what action->Undo() and action->Redo() write to: the variable mVar refers
\* to and the entity's component
Edited == [mVar |-> mVar, component |-> component]

\* UndoAction::Undo: mVar = mPrevValue; UndoRemoveComponent::Undo:
\* ecsInterface.AddComponent(mEntity, mRemovedComponent)
ActionUndo(action, e) ==
    IF action.type = "UndoAction" THEN [e EXCEPT !.mVar = action.mPrevValue]
    ELSE [e EXCEPT !.component = TRUE]

\* UndoAction::Redo: mVar = mNewValue; UndoRemoveComponent::Redo:
\* ecsInterface.RemoveComponent(mEntity)
ActionRedo_Undoes(action, e) == ActionUndo(action, e)
ActionRedo(action, e) ==
    IF action.type = "UndoAction" THEN [e EXCEPT !.mVar = action.mNewValue]
    ELSE [e EXCEPT !.component = FALSE]

\* if (stack.size() > MAX_UNDO_REDO) stack.erase(stack.begin())
Limit_EraseNewest(stack) ==
    IF Len(stack) > MAX_UNDO_REDO THEN SubSeq(stack, 1, Len(stack) - 1) ELSE stack
Limit(stack) == IF Len(stack) > MAX_UNDO_REDO THEN Tail(stack) ELSE stack

\* stack.back() and stack.pop_back()
Back(stack) == stack[Len(stack)]
PopBack(stack) == SubSeq(stack, 1, Len(stack) - 1)

\* the state an Undo or a Redo acts on
EditorState ==
    [undoStack |-> undoStack, redoStack |-> redoStack, mVar |-> mVar,
     component |-> component]

\* no Undo to refer to
NoUndo == <<>>

\* a manager just constructed: both stacks empty; the entity has the component
EditorInit ==
    /\ undoStack = <<>>
    /\ redoStack = <<>>
    /\ mVar = FALSE
    /\ component = TRUE
    /\ last = [op |-> "none", before |-> NoUndo]

-----------------------------------------------------------------------------
(* TrieSpec: one Trie, filled by any sequence of Trie::insert calls *)

\* the words handed to a direct Trie::insert
InsertWords == StringsUpTo({"a", "b"}, MaxWordLen)

\* the strings handed to Trie::search and Trie::startsWith
ProbeWords == StringsUpTo({"a", "b"}, MaxWordLen + 1)

TrieInit ==
    /\ EditorInit
    /\ instance = NULL
    /\ created = 0
    /\ trie = NewTrie
    /\ nsfwTrie = NewTrie
    /\ prefixList = <<>>
    /\ dictionaryWords = <<>>
    /\ nsfwList = <<>>
    /\ hist = [dict |-> {}, nsfw |-> {}]
    /\ inserts = 0
    /\ call = Idle

TrieInsert(w) ==
    /\ NoCallRunning
    /\ inserts < MaxTrieInserts
    /\ trie' = insert(trie, w)
    /\ hist' = [hist EXCEPT !.dict = @ \cup {w}]
    /\ inserts' = inserts + 1
    /\ call' = Returned("insert", <<w>>, <<>>)
    /\ UNCHANGED <<instance, created, nsfwTrie, prefixList, dictionaryWords, nsfwList, editorVars>>

TrieSearch(w) ==
    /\ NoCallRunning
    /\ call' = Returned("search", <<w>>, search(trie, w))
    /\ trie' = visit(trie, w)
    /\ UNCHANGED <<instance, created, nsfwTrie, prefixList, dictionaryWords,
                   nsfwList, hist, inserts, editorVars>>

TrieStartsWith(p) ==
    /\ NoCallRunning
    /\ call' = Returned("startsWith", <<p>>, startsWith(trie, p))
    /\ trie' = visit(trie, p)
    /\ UNCHANGED <<instance, created, nsfwTrie, prefixList, dictionaryWords,
                   nsfwList, hist, inserts, editorVars>>

TrieNext ==
    \/ \E w \in InsertWords : TrieInsert(w)
    \/ \E w \in ProbeWords : TrieSearch(w)
    \/ \E p \in ProbeWords : TrieStartsWith(p)
    \/ Return

TrieSpec == TrieInit /\ [][TrieNext]_vars

\* Trie::~Trie(): clear(root); the object's lifetime ends, no operation
\* follows
TrieDestroy ==
    /\ NoCallRunning
    /\ \E released \in clear(trie, trie.root) :
           call' = [op |-> "~Trie", arg |-> <<>>, ret |-> released, pc |-> "ended",
                    local |-> <<>>]
    /\ trie' = NoTrie
    /\ UNCHANGED <<instance, created, nsfwTrie, prefixList, dictionaryWords,
                   nsfwList, hist, inserts, editorVars>>

TeardownNext ==
    \/ TrieNext
    \/ TrieDestroy

\* one Trie from its construction to its destruction
TeardownSpec == TrieInit /\ [][TeardownNext]_vars

-----------------------------------------------------------------------------
(* Properties of one Trie, checked under TrieSpec *)

\* w begins with p: the first Len(p) characters of w are p
HasPrefix(w, p) == Len(p) <= Len(w) /\ \A i \in 1..Len(p) : w[i] = p[i]

ProperPrefix(p, w) == HasPrefix(w, p) /\ Len(p) < Len(w)

\* C2: every word that was inserted is found by search, right after its
\* insertion and after every later insertion of other words (prefixes and
\* extensions of it included), both as the trie stands and as a search call
\* reports it.
C2_InsertedWordsAreFound ==
    /\ \A w \in hist.dict : search(trie, w)
    /\ (call.op = "search" /\ call.arg[1] \in hist.dict) => call.ret = TRUE

\* C2 witness: a search call finds an inserted word that is a proper prefix of
\* a word inserted as well.
C2_Witness ==
    /\ call.op = "search"
    /\ call.ret = TRUE
    /\ call.arg[1] \in hist.dict
    /\ \E v \in hist.dict : ProperPrefix(call.arg[1], v)

\* C3: search is false for every word that was never inserted, also for a
\* proper prefix of an inserted word and for an extension of an inserted word:
\* the root path spelling w ends at a terminal node only if w was inserted.
C3_AbsentWordsAreNotFound ==
    /\ \A w \in ProbeWords : w \notin hist.dict => ~search(trie, w)
    /\ (call.op = "search" /\ call.arg[1] \notin hist.dict) => call.ret = FALSE

\* C3 witness: a search call rejects a word never inserted that is a proper
\* prefix of one inserted word and extends another.
C3_Witness ==
    /\ call.op = "search"
    /\ call.ret = FALSE
    /\ call.arg[1] \notin hist.dict
    /\ \E v \in hist.dict : ProperPrefix(call.arg[1], v)
    /\ \E u \in hist.dict : ProperPrefix(u, call.arg[1])

\* C4: startsWith(p) is true if and only if some stored word begins with p,
\* for every reachable trie (the empty one included) and every p (the empty
\* string included).
C4_StartsWithIffSomeWordHasPrefix ==
    call.op = "startsWith" =>
        (call.ret <=> \E w \in hist.dict : HasPrefix(w, call.arg[1]))

\* the node the root path spelling w ends at, NULL when the path breaks off
RECURSIVE NodeFrom(_, _, _, _)
NodeFrom(t, node, w, i) ==
    IF i > Len(w) THEN node
    ELSE IF Find(t, node, w[i]) = {} THEN NULL
         ELSE NodeFrom(t, Child(t, node, w[i]), w, i + 1)

NodeAt(t, w) == NodeFrom(t, t.root, w, 1)

\* C18: in every state reached by Trie::insert calls a word is a member of
\* getAllWords() if and only if its root path exists and ends at a terminal
\* node, every terminal node is the end of the path of a member, and search(w)
\* equals membership of w in getAllWords() for every w.
C18_WordSetAgreesWithTree ==
    /\ \A w \in ProbeWords :
          /\ (w \in trie.words)
                <=> (NodeAt(trie, w) # NULL /\ trie.isEndOfWord[NodeAt(trie, w)])
          /\ search(trie, w) <=> (w \in trie.words)
    /\ \A n \in 1..Len(trie.isEndOfWord) :
          trie.isEndOfWord[n] => \E w \in trie.words : NodeAt(trie, w) = n
    /\ trie.words \subseteq ProbeWords

\* C18 witness: insert has stored a word and a proper prefix of it.
C18_Witness ==
    /\ call.op = "insert"
    /\ trie.words = {<<"a">>, <<"a", "b">>}
    /\ search(trie, <<"a">>)
    /\ ~search(trie, <<"a", "a">>)

\* C19: inserting a word that is already stored leaves the nodes, the child
\* maps, the terminal flags and the word set exactly as they were, and
\* insert(w); insert(w) yields the state insert(w) yields.
C19_InsertIsIdempotent ==
    /\ \A w \in trie.words : insert(trie, w) = trie
    /\ \A w \in InsertWords : insert(insert(trie, w), w) = insert(trie, w)

\* C19 witness: two insert calls of the same two-letter word have run.
C19_Witness ==
    /\ call.op = "insert"
    /\ inserts = 2
    /\ trie.words = {<<"a", "b">>}
    /\ Len(trie.children) = 3

\* C20: for any two words a and b, inserting a then b and inserting b then a
\* into the same trie give the same word set and the same results of search
\* and of startsWith for every string (the trie being any that fewer than
\* MaxTrieInserts insert calls have built, between two calls).
C20_InsertionOrderIsIrrelevant ==
    (NoCallRunning /\ inserts < MaxTrieInserts) =>
        \A a \in InsertWords, b \in InsertWords :
            \A ab \in {insert(insert(trie, a), b)}, ba \in {insert(insert(trie, b), a)} :
                /\ ab.words = ba.words
                /\ \A s \in ProbeWords :
                      /\ search(ab, s) = search(ba, s)
                      /\ startsWith(ab, s) = startsWith(ba, s)

\* C20 witness: "b" was inserted before "a" (the nodes are numbered in that
\* order), the same two words another behaviour inserts as "a" before "b".
C20_Witness ==
    /\ call.op = "insert"
    /\ trie.words = {<<"a">>, <<"b">>}
    /\ Child(trie, trie.root, "b") < Child(trie, trie.root, "a")

\* the nodes of the heap of t
Nodes(t) == 1..Len(t.children)

\* the <<parent, character>> pairs under which node n is a child
ParentsOf(t, n) ==
    UNION {{<<parent, pair[1]>> : pair \in {e \in t.children[parent] : e[2] = n}} :
           parent \in Nodes(t)}

\* C27: the node graph is a tree: the root is nobody's child, every other
\* node is the child of exactly one parent under exactly one character (and
\* was allocated after that parent, so no path leads back to a node), a
\* node's map holds one entry per character and every entry leads to a node.
C27_NodeGraphIsATree ==
    /\ trie.root = 1
    /\ ParentsOf(trie, trie.root) = {}
    /\ \A n \in Nodes(trie) \ {trie.root} :
          /\ Cardinality(ParentsOf(trie, n)) = 1
          /\ \A parent \in ParentsOf(trie, n) : parent[1] < n
    /\ \A n \in Nodes(trie) :
          /\ \A e \in trie.children[n] : e[2] \in Nodes(trie)
          /\ \A e, f \in trie.children[n] : e[1] = f[1] => e = f

\* C27 witness: a trie of four nodes in which one node has two children.
C27_Witness ==
    /\ Len(trie.children) >= 4
    /\ \E n \in Nodes(trie) : Cardinality(trie.children[n]) = 2
    /\ call.op = "insert"

\* C28: teardown (~Trie, that is clear(root)) releases every node exactly
\* once, each only after all of its children, and leaves none behind.
C28_TeardownReleasesEveryNodeOnce ==
    [][call'.op = "~Trie" =>
        LET released == call'.ret
        IN  /\ Len(released) = Len(trie.children)
            /\ \A n \in Nodes(trie) :
                  Cardinality({i \in 1..Len(released) : released[i] = n}) = 1
            /\ \A i \in 1..Len(released) :
                  \A e \in trie.children[released[i]] :
                      \E j \in 1..(i - 1) : released[j] = e[2]
            /\ trie'.root = NULL
            /\ trie'.children = <<>>]_vars

\* C28 witness: the teardown of a trie of four nodes, the root released last
\* and a node with two children right before it.
C28_Witness ==
    /\ call.op = "~Trie"
    /\ call.pc = "ended"
    /\ Len(call.ret) = 4
    /\ call.ret[4] = 1
    /\ call.ret[3] = 2
    /\ trie = NoTrie

-----------------------------------------------------------------------------
(* The files handed to the loaders *)

Quoted(w) == <<Quote>> \o w \o <<Quote>>

Cat  == <<"c", "a", "t">>
Car  == <<"c", "a", "r">>
Cart == <<"c", "a", "r", "t">>
Dog  == <<"d", "o", "g">>
Bad  == <<"b", "a", "d">>

\* the dictionary of the documented scenario
ScenarioWords == {Cat, Car, Cart, Dog}

\* a vocabulary in which 25 words begin with "a" and 5 with each of "aa".."ae",
\* beside the one-letter word "b" and the word "ba"
Letters5 == <<"a", "b", "c", "d", "e">>
BigWordList ==
    [i \in 1..(Len(Letters5) * Len(Letters5)) |->
        <<"a", Letters5[((i - 1) \div Len(Letters5)) + 1],
               Letters5[((i - 1) % Len(Letters5)) + 1]>>]
      \o <<<<"b">>, <<"b", "a">>>>

\* a vocabulary of the word "ab" and the 25 four-letter words that extend it
DeepWordList ==
    <<<<"a", "b">>>> \o
    [i \in 1..(Len(Letters5) * Len(Letters5)) |->
        <<"a", "b", Letters5[((i - 1) \div Len(Letters5)) + 1],
                    Letters5[((i - 1) % Len(Letters5)) + 1]>>]

Range(f) == {f[i] : i \in DOMAIN f}

\* What the loaders see of a file: whether it opens, the key it holds, whether
\* a '[' ... ']' pair follows the key, and the array's content as std::getline
\* splits it at each ','.
NoFile == [open |-> FALSE, key |-> "", array |-> FALSE, items |-> <<>>]

File(name) ==
    CASE name = "words.json" ->
           [open |-> TRUE, key |-> "words", array |-> TRUE,
            items |-> <<Quoted(Cat), <<" ">> \o Quoted(<<"C", "a", "r">>),
                        <<" ", Quote, " ">> \o Cart \o <<Quote, "\t">>,
                        Quoted(<<"D", "o", "g">>), <<" ", Quote, Quote>>, <<" ">>,
                        Quoted(Cat)>>]
      [] name = "big.json" ->
           [open |-> TRUE, key |-> "words", array |-> TRUE,
            items |-> [i \in 1..Len(BigWordList) |-> Quoted(BigWordList[i])]]
      [] name = "deep.json" ->
           [open |-> TRUE, key |-> "words", array |-> TRUE,
            items |-> [i \in 1..Len(DeepWordList) |-> Quoted(DeepWordList[i])]]
      [] name = "prefixes.json" ->
           [open |-> TRUE, key |-> "prefixes", array |-> TRUE,
            items |-> <<Quoted(<<"c", "a">>), <<" ">> \o Quoted(<<"D", "o">>),
                        <<Quote, Quote>>, Quoted(<<"c", "a">>)>>]
      [] name = "nsfw.json" ->
           [open |-> TRUE, key |-> "nsfw", array |-> TRUE,
            items |-> <<<<" ">> \o Quoted(<<"b", "A", "d">>) \o <<" ">>, <<"\t">>,
                        Quoted(Cat), <<Quote, "B", " ", Quote>>, <<Quote, Quote>>>>]
      [] name = "broken.json" ->
           [open |-> TRUE, key |-> "words", array |-> FALSE, items |-> <<>>]
      [] OTHER -> NoFile

WordFileNames   ==
    {"missing.json", "broken.json", "prefixes.json", "words.json", "big.json", "deep.json"}
\* the word files the application loads by a direct UE_LoadDictionary call
ReloadFileNames == {"missing.json", "broken.json", "words.json"}
PrefixFileNames == {"missing.json", "prefixes.json"}
NsfwFileNames   == {"missing.json", "nsfw.json"}

\* the early returns of a loader: the file does not open, the key is not
\* found, the array brackets are not found
Unreadable(f, key) == ~f.open \/ f.key # key \/ ~f.array

-----------------------------------------------------------------------------
(* AssetManager's loaders *)

\* one pass of the while (std::getline(ss, word, ',')) loop of
\* UE_LoadDictionary, on the word read
LoadDictionaryItem_KeepEmpty(s, raw) ==
    LET word == ToLowerStr(trim(RemoveQuotes(raw)))
    IN  [trie |-> insert(s.trie, word), list |-> Append(s.list, word)]
LoadDictionaryItem(s, raw) ==
    LET word == ToLowerStr(trim(RemoveQuotes(raw)))
    IN  IF word # <<>>
        THEN [trie |-> insert(s.trie, word), list |-> Append(s.list, word)]
        ELSE s

\* the passes of that loop from item i on (each pass's result is bound as a
\* value before the next pass starts)
RECURSIVE LoadDictionaryItems(_, _, _)
LoadDictionaryItems(s, items, i) ==
    IF i > Len(items) THEN s
    ELSE CHOOSE r \in {LoadDictionaryItems(next, items, i + 1) :
                          next \in {LoadDictionaryItem(s, items[i])}} : TRUE

\* AssetManager::UE_LoadDictionary: t is the trie GetInstance()->GetTrie()
\* refers to, list is dictionaryWords
UE_LoadDictionary(t, list, fileName) ==
    IF Unreadable(File(fileName), "words") THEN [trie |-> t, list |-> list]
    ELSE LoadDictionaryItems([trie |-> t, list |-> <<>>], File(fileName).items, 1)

\* the while loop of UE_LoadPrefixes: quotes removed, trimmed, case kept
RECURSIVE LoadPrefixItems(_, _, _)
LoadPrefixItems(list, items, i) ==
    IF i > Len(items) THEN list
    ELSE LET item == trim(RemoveQuotes(items[i]))
         IN  IF item # <<>> THEN LoadPrefixItems(Append(list, item), items, i + 1)
             ELSE LoadPrefixItems(list, items, i + 1)

\* AssetManager::UE_LoadPrefixes: list is prefixList
UE_LoadPrefixes(list, fileName) ==
    IF Unreadable(File(fileName), "prefixes") THEN list
    ELSE LoadPrefixItems(<<>>, File(fileName).items, 1)

\* item.erase(item.begin(), find_if(begin, end, !isspace))
EraseLeadingSpace(item) ==
    LET nonspace == {i \in 1..Len(item) : ~isspace(item[i])}
    IN  IF nonspace = {} THEN <<>> ELSE SubSeq(item, SetMin(nonspace), Len(item))

\* item.erase(find_if(rbegin, rend, !isspace).base(), item.end())
EraseTrailingSpace(item) ==
    LET nonspace == {i \in 1..Len(item) : ~isspace(item[i])}
    IN  IF nonspace = {} THEN <<>> ELSE SubSeq(item, 1, SetMax(nonspace))

\* one pass of the while loop of UE_LoadNSFW, on the item read
LoadNsfwItem_KeepCase(s, raw) ==
    LET item == EraseTrailingSpace(EraseLeadingSpace(RemoveQuotes(raw)))
    IN  IF item # <<>>
        THEN [trie |-> insert(s.trie, item), list |-> Append(s.list, item)]
        ELSE s
LoadNsfwItem(s, raw) ==
    LET item == ToLowerStr(EraseTrailingSpace(EraseLeadingSpace(RemoveQuotes(raw))))
    IN  IF item # <<>>
        THEN [trie |-> insert(s.trie, item), list |-> Append(s.list, item)]
        ELSE s

\* the passes of that loop from item i on
RECURSIVE LoadNsfwItems(_, _, _)
LoadNsfwItems(s, items, i) ==
    IF i > Len(items) THEN s
    ELSE CHOOSE r \in {LoadNsfwItems(next, items, i + 1) :
                          next \in {LoadNsfwItem(s, items[i])}} : TRUE

\* AssetManager::UE_LoadNSFW: t is the trie GetInstance()->GetNSFW() refers
\* to, list is nsfwList
UE_LoadNSFW(t, list, fileName) ==
    IF Unreadable(File(fileName), "nsfw") THEN [trie |-> t, list |-> list]
    ELSE LoadNsfwItems([trie |-> t, list |-> <<>>], File(fileName).items, 1)

-----------------------------------------------------------------------------
(* Lexicon *)

\* the minimum number of completions the generator asks for
MinWords == 20

\* the test `if (!instance)` of Lexicon::Initialize
NeedsConstruction_Always == TRUE
NeedsConstruction == instance = NULL

\* the test `count >= MinAmount` of CheckPrefixHasMinimumWords
Enough_Above(count, MinAmount) == count > MinAmount
Enough_Exactly(count, MinAmount) == count = MinAmount
Enough(count, MinAmount) == count >= MinAmount

\* the for loop of CheckPrefixHasMinimumWords over the words not yet visited,
\* with its early exit
RECURSIVE CountFrom(_, _, _, _)
CountFrom(rest, prefix, MinAmount, count) ==
    IF rest = {} THEN FALSE
    ELSE \E word \in {CHOOSE w \in rest : TRUE} :
            \E others \in {rest \ {word}} :
                IF StrFind(word, prefix) = 0
                THEN IF Enough(count + 1, MinAmount) THEN TRUE
                     ELSE CountFrom(others, prefix, MinAmount, count + 1)
                ELSE CountFrom(others, prefix, MinAmount, count)

\* Lexicon::CheckPrefixHasMinimumWords
CheckPrefixHasMinimumWords(prefix, MinAmount) ==
    IF trie.words = {} THEN FALSE
    ELSE CountFrom(trie.words, prefix, MinAmount, 0)

\* the loop condition of GeneratePrefixFromRandomWord
LoopAgain_Inverted(randomPrefix) == CheckPrefixHasMinimumWords(randomPrefix, MinWords)
LoopAgain_Always(randomPrefix) == TRUE
LoopAgain(randomPrefix) == ~CheckPrefixHasMinimumWords(randomPrefix, MinWords)

\* std::min
Min_ShortOfSecond(a, b) == IF a < b THEN a ELSE b - 1
Min(a, b) == IF a < b THEN a ELSE b

\* the normalisation of checkUserWord and isNsfwWord: trim, then tolower
Normalized(word) == ToLowerStr(trim(word))

\* Lexicon::checkUserWord
checkUserWord(userWord) == search(trie, Normalized(userWord))

\* Lexicon::isNsfwWord
isNsfwWord_DictionaryTrie(word) == search(trie, Normalized(word))
isNsfwWord(word) == search(nsfwTrie, Normalized(word))

\* lexicon.cpp's `prefixes`: a reference to AssetManager::prefixList
prefixes == prefixList

\* Lexicon::getRandomPrefix, rnd being the value rand() returns
getRandomPrefix_First(rnd) ==
    IF prefixes = <<>> THEN <<>> ELSE prefixes[1]
getRandomPrefix_Placeholder(rnd) ==
    IF prefixes = <<>> THEN <<"a">> ELSE prefixes[(rnd % Len(prefixes)) + 1]
getRandomPrefix(rnd) ==
    IF prefixes = <<>> THEN <<>> ELSE prefixes[(rnd % Len(prefixes)) + 1]

\* std::isalpha(c) for a char c: a byte above 0x7F reaches it as a negative
\* int, for which the behaviour is undefined; outOfRange is what the call
\* answers then
isalpha(c, outOfRange) ==
    IF c \in HighByte THEN outOfRange ELSE c \in Lower \cup Upper

\* the for loop of countLetters from character i of word on
RECURSIVE countLettersFrom(_, _, _, _)
countLettersFrom(word, i, count, outOfRange) ==
    IF i > Len(word) THEN count
    ELSE countLettersFrom(word, i + 1,
                          IF isalpha(word[i], outOfRange) THEN count + 1 ELSE count,
                          outOfRange)

\* Lexicon::countLetters
countLetters(word, outOfRange) == countLettersFrom(word, 1, 0, outOfRange)

-----------------------------------------------------------------------------
(* Spec: the service from start-up on *)

\* the raw texts handed to checkUserWord and isNsfwWord
RawInputs ==
    StringsUpTo({"b", "B", " "}, MaxRawLen)
      \cup {Cat, Dog, Bad, <<" ", " ", "C", "A", "T", " ">>, <<"D", "o", "g", " ">>,
            <<"\t", "c", "a", "T">>, <<"c", " ", "a", "t">>}

\* the prefixes and counts handed to CheckPrefixHasMinimumWords
PrefixProbes ==
    {<<>>, <<"c">>, <<"c", "a">>, Car, Cart, <<"a">>, <<"a", "t">>, <<"a", "b">>, <<"b">>}
MinAmounts == (-1..MaxMinAmount) \cup {MinWords}

\* the texts handed to countLetters
CountExample == <<"a", "1", " ", "b", "!", "c">>
CountInputs ==
    StringsUpTo({"a", "1", " "} \cup HighByte, MaxCountLen)
      \cup {CountExample, <<"!">>, <<"C", "a", "t">>}

Init ==
    /\ EditorInit
    /\ instance = NULL
    /\ created = 0
    /\ trie = NoTrie
    /\ nsfwTrie = NoTrie
    /\ prefixList = <<>>
    /\ dictionaryWords = <<>>
    /\ nsfwList = <<>>
    /\ hist = [dict |-> {}, nsfw |-> {}]
    /\ inserts = 0
    /\ call = Idle

\* Lexicon::Initialize(wordFilename, prefixFilename, nsfwFilename): the
\* Lexicon constructor builds both tries, then the three loaders run
Initialize(wordFilename, prefixFilename, nsfwFilename) ==
    /\ NoCallRunning
    /\ call' = Returned("Initialize", <<>>, instance # NULL)
    /\ UNCHANGED inserts
    /\ UNCHANGED editorVars
    /\ IF NeedsConstruction
       THEN LET d == UE_LoadDictionary(NewTrie, dictionaryWords, wordFilename)
                n == UE_LoadNSFW(NewTrie, nsfwList, nsfwFilename)
            IN  /\ instance' = created + 1
                /\ created' = created + 1
                /\ trie' = d.trie
                /\ dictionaryWords' = d.list
                /\ prefixList' = UE_LoadPrefixes(prefixList, prefixFilename)
                /\ nsfwTrie' = n.trie
                /\ nsfwList' = n.list
                /\ hist' = [dict |-> Range(UE_LoadDictionary(NewTrie, <<>>, wordFilename).list),
                            nsfw |-> Range(UE_LoadNSFW(NewTrie, <<>>, nsfwFilename).list)]
       ELSE UNCHANGED <<instance, created, trie, nsfwTrie, prefixList,
                        dictionaryWords, nsfwList, hist, editorVars>>

\* Lexicon::GetInstance
GetInstance_Lazy ==
    /\ NoCallRunning
    /\ instance' = IF instance = NULL THEN created + 1 ELSE instance
    /\ created' = IF instance = NULL THEN created + 1 ELSE created
    /\ trie' = IF instance = NULL THEN NewTrie ELSE trie
    /\ nsfwTrie' = IF instance = NULL THEN NewTrie ELSE nsfwTrie
    /\ call' = Returned("GetInstance", <<created>>, [ptr |-> instance', err |-> FALSE])
    /\ UNCHANGED <<prefixList, dictionaryWords, nsfwList, hist, inserts, editorVars>>
GetInstance ==
    /\ NoCallRunning
    /\ call' = Returned("GetInstance", <<created>>,
                        IF instance = NULL THEN [ptr |-> NULL, err |-> TRUE]
                        ELSE [ptr |-> instance, err |-> FALSE])
    /\ UNCHANGED <<instance, created, trie, nsfwTrie, prefixList, dictionaryWords,
                   nsfwList, hist, inserts, editorVars>>

\* a query of the initialized service: it returns ret and changes nothing
Query(op, arg, ret) ==
    /\ NoCallRunning
    /\ instance # NULL
    /\ call' = Returned(op, arg, ret)
    /\ UNCHANGED <<instance, created, trie, nsfwTrie, prefixList, dictionaryWords,
                   nsfwList, hist, inserts, editorVars>>

\* Lexicon::checkUserWord: trie.search runs on the dictionary trie
CallCheckUserWord(raw) ==
    /\ NoCallRunning
    /\ instance # NULL
    /\ call' = Returned("checkUserWord", <<raw>>, checkUserWord(raw))
    /\ trie' = visit(trie, Normalized(raw))
    /\ UNCHANGED <<instance, created, nsfwTrie, prefixList, dictionaryWords,
                   nsfwList, hist, inserts, editorVars>>

\* Lexicon::isNsfwWord: nsfwTrie.search runs on the profanity trie
CallIsNsfwWord(raw) ==
    /\ NoCallRunning
    /\ instance # NULL
    /\ call' = Returned("isNsfwWord", <<raw>>, isNsfwWord(raw))
    /\ nsfwTrie' = visit(nsfwTrie, Normalized(raw))
    /\ UNCHANGED <<instance, created, trie, prefixList, dictionaryWords,
                   nsfwList, hist, inserts, editorVars>>

\* Lexicon::getRandomPrefix
CallGetRandomPrefix(rnd) == Query("getRandomPrefix", <<rnd>>, getRandomPrefix(rnd))

\* Lexicon::countLetters: on a word with a byte above 0x7F the undefined
\* std::isalpha call answers either way or ends the process (crash)
CallCountLetters(word, outOfRange, crash) ==
    /\ NoCallRunning
    /\ instance # NULL
    /\ (outOfRange \/ crash) => \E i \in 1..Len(word) : word[i] \in HighByte
    /\ call' = [op |-> "countLetters", arg |-> <<word>>,
                ret |-> IF crash THEN <<>> ELSE countLetters(word, outOfRange),
                pc |-> IF crash THEN "crashed" ELSE "done", local |-> <<>>]
    /\ UNCHANGED <<instance, created, trie, nsfwTrie, prefixList, dictionaryWords,
                   nsfwList, hist, inserts, editorVars>>

\* what a loader reports: err when it wrote to std::cerr, nullUsed when it
\* applied -> to the null pointer GetInstance() returned
LoaderResult(err, nullUsed) == [err |-> err, nullUsed |-> nullUsed]

\* a loader that ran on the null instance: undefined behaviour, which ends
\* the process (crash) or lets the call return
RanOnNull(op, fileName, crash) ==
    [op |-> op, arg |-> <<fileName>>, ret |-> LoaderResult(TRUE, TRUE),
     pc |-> IF crash THEN "crashed" ELSE "done", local |-> <<>>]

\* GlobalAssetManager.UE_LoadDictionary(fileName), called by the application
CallLoadDictionary(fileName, crash) ==
    /\ NoCallRunning
    /\ UNCHANGED <<instance, created, nsfwTrie, prefixList, nsfwList, inserts, editorVars>>
    /\ IF Unreadable(File(fileName), "words")
       THEN /\ ~crash
            /\ call' = Returned("UE_LoadDictionary", <<fileName>>, LoaderResult(TRUE, FALSE))
            /\ UNCHANGED <<trie, dictionaryWords, hist, editorVars>>
       ELSE IF instance = NULL
            THEN /\ call' = RanOnNull("UE_LoadDictionary", fileName, crash)
                 /\ dictionaryWords' = UE_LoadDictionary(NewTrie, dictionaryWords, fileName).list
                 /\ UNCHANGED <<trie, hist, editorVars>>
            ELSE LET d == UE_LoadDictionary(trie, dictionaryWords, fileName)
                 IN  /\ ~crash
                     /\ call' = Returned("UE_LoadDictionary", <<fileName>>,
                                         LoaderResult(FALSE, FALSE))
                     /\ trie' = d.trie
                     /\ dictionaryWords' = d.list
                     /\ hist' = [hist EXCEPT !.dict = @ \cup Range(d.list)]

\* GlobalAssetManager.UE_LoadPrefixes(fileName), called by the application
CallLoadPrefixes(fileName) ==
    /\ NoCallRunning
    /\ call' = Returned("UE_LoadPrefixes", <<fileName>>,
                        LoaderResult(Unreadable(File(fileName), "prefixes"), FALSE))
    /\ prefixList' = UE_LoadPrefixes(prefixList, fileName)
    /\ UNCHANGED <<instance, created, trie, nsfwTrie, dictionaryWords, nsfwList,
                   hist, inserts, editorVars>>

\* GlobalAssetManager.UE_LoadNSFW(fileName), called by the application
CallLoadNSFW(fileName, crash) ==
    /\ NoCallRunning
    /\ UNCHANGED <<instance, created, trie, prefixList, dictionaryWords, inserts, editorVars>>
    /\ IF Unreadable(File(fileName), "nsfw")
       THEN /\ ~crash
            /\ call' = Returned("UE_LoadNSFW", <<fileName>>, LoaderResult(TRUE, FALSE))
            /\ UNCHANGED <<nsfwTrie, nsfwList, hist, editorVars>>
       ELSE IF instance = NULL
            THEN /\ call' = RanOnNull("UE_LoadNSFW", fileName, crash)
                 /\ nsfwList' = UE_LoadNSFW(NewTrie, nsfwList, fileName).list
                 /\ UNCHANGED <<nsfwTrie, hist, editorVars>>
            ELSE LET n == UE_LoadNSFW(nsfwTrie, nsfwList, fileName)
                 IN  /\ ~crash
                     /\ call' = Returned("UE_LoadNSFW", <<fileName>>,
                                         LoaderResult(FALSE, FALSE))
                     /\ nsfwTrie' = n.trie
                     /\ nsfwList' = n.list
                     /\ hist' = [hist EXCEPT !.nsfw = @ \cup Range(n.list)]

CallCheckPrefix(prefix, MinAmount) ==
    Query("CheckPrefixHasMinimumWords", <<prefix, MinAmount>>,
          CheckPrefixHasMinimumWords(prefix, MinAmount))

\* GeneratePrefixFromRandomWord(length, Randomize) up to its loop: the empty
\* word set returns "" at once, otherwise randomPrefix starts empty
GenerateStart(length, Randomize) ==
    /\ NoCallRunning
    /\ instance # NULL
    /\ call' = [op |-> "GeneratePrefixFromRandomWord", arg |-> <<length, Randomize>>,
                ret |-> <<>>, pc |-> IF trie.words = {} THEN "done" ELSE "loop",
                local |-> <<>>]
    /\ UNCHANGED <<instance, created, trie, nsfwTrie, prefixList, dictionaryWords,
                   nsfwList, hist, inserts, editorVars>>

\* one iteration of the do-while loop: randomWord is the word rand() picks,
\* r the value of rand() % length, drawn only when Randomize is set (r is 0
\* otherwise); `continue` goes to the loop condition with randomPrefix as it
\* stands; call.ret holds randomPrefix and, once the loop has ended,
\* call.local holds randomWord of the last iteration
GenerateIterate(randomWord, r) ==
    /\ call.op = "GeneratePrefixFromRandomWord"
    /\ call.pc = "loop"
    /\ r < call.arg[1]
    /\ call.arg[2] \/ r = 0
    /\ LET length == call.arg[1]
           prefixLength == Min(IF call.arg[2] THEN r + 1 ELSE length, Len(randomWord))
       IN  \E randomPrefix \in {IF Len(randomWord) < 2 THEN call.ret
                                ELSE SubSeq(randomWord, 1, prefixLength)} :
               \E again \in {LoopAgain(randomPrefix)} :
                   call' = [call EXCEPT !.ret = randomPrefix,
                                        !.pc = IF again THEN "loop" ELSE "done",
                                        !.local = IF again THEN <<>> ELSE <<randomWord>>]
    /\ UNCHANGED <<instance, created, trie, nsfwTrie, prefixList, dictionaryWords,
                   nsfwList, hist, inserts, editorVars>>

Next ==
    \/ \E w \in WordFileNames, p \in PrefixFileNames, n \in NsfwFileNames :
          Initialize(w, p, n)
    \/ GetInstance
    \/ \E raw \in RawInputs : CallCheckUserWord(raw)
    \/ \E raw \in RawInputs : CallIsNsfwWord(raw)
    \/ \E p \in PrefixProbes, k \in MinAmounts : CallCheckPrefix(p, k)
    \/ \E length \in 1..MaxGenLen, Randomize \in BOOLEAN :
          GenerateStart(length, Randomize)
    \/ \E w \in trie.words, r \in 0..(MaxGenLen - 1) : GenerateIterate(w, r)
    \/ \E rnd \in 0..MaxRand : CallGetRandomPrefix(rnd)
    \/ \E word \in CountInputs, outOfRange \in BOOLEAN, crash \in BOOLEAN :
          CallCountLetters(word, outOfRange, crash)
    \/ \E w \in ProbeWords : instance # NULL /\ TrieSearch(w)
    \/ \E p \in ProbeWords : instance # NULL /\ TrieStartsWith(p)
    \/ \E f \in ReloadFileNames, crash \in BOOLEAN : CallLoadDictionary(f, crash)
    \/ \E f \in PrefixFileNames : CallLoadPrefixes(f)
    \/ \E f \in NsfwFileNames, crash \in BOOLEAN : CallLoadNSFW(f, crash)
    \/ Return

Spec == Init /\ [][Next]_vars

-----------------------------------------------------------------------------
(* Properties of the service, checked under Spec *)

\* the number of words of the dictionary word set that begin with p
CountWithPrefix(p) == Cardinality({w \in trie.words : HasPrefix(w, p)})

\* some prefix of some dictionary word is shared by at least MinWords words
SomePrefixQualifies ==
    \E w \in trie.words : \E n \in 0..Len(w) :
        CountWithPrefix(SubSeq(w, 1, n)) >= MinWords

GenerateReturned ==
    call.op = "GeneratePrefixFromRandomWord" /\ call.pc = "done"

\* C1: whenever GeneratePrefixFromRandomWord(length, false), length >= 1,
\* returns a prefix p from a dictionary that holds a qualifying prefix,
\* CheckPrefixHasMinimumWords(p, 20) is true in that state: at least 20 words
\* of the dictionary word set begin with p.
C1_GeneratedPrefixHasMinimumWords ==
    (GenerateReturned /\ call.arg[2] = FALSE /\ call.arg[1] >= 1 /\ SomePrefixQualifies)
        => /\ CheckPrefixHasMinimumWords(call.ret, MinWords)
           /\ CountWithPrefix(call.ret) >= MinWords

\* C1 witness: the generator, not randomizing, has returned the prefix "a" of
\* a dictionary in which 25 words begin with it.
C1_Witness ==
    /\ GenerateReturned
    /\ call.arg[2] = FALSE
    /\ call.ret = <<"a">>
    /\ SomePrefixQualifies

CheckPrefixReturned == call.op = "CheckPrefixHasMinimumWords"

\* C5 as stated: for every prefix p and every integer k,
\* CheckPrefixHasMinimumWords(p, k) is true if and only if the number of
\* dictionary words with leading characters p is at least k.
C5_TrueIffCountAtLeastK ==
    CheckPrefixReturned =>
        (call.ret <=> CountWithPrefix(call.arg[1]) >= call.arg[2])

\* C5 as amended: CheckPrefixHasMinimumWords(p, k) is true if and only if the
\* number of dictionary words with leading characters p is at least k and at
\* least 1.
C5_TrueIffCountAtLeastKAndOne ==
    CheckPrefixReturned =>
        (call.ret <=> /\ CountWithPrefix(call.arg[1]) >= call.arg[2]
                      /\ CountWithPrefix(call.arg[1]) >= 1)

\* C5 witness: on the dictionary {cat, car, cart, dog} the call ("ca", 4) has
\* returned false, where ("ca", 3) is true.
C5_Witness ==
    /\ CheckPrefixReturned
    /\ trie.words = ScenarioWords
    /\ call.arg = <<<<"c", "a">>, 4>>
    /\ call.ret = FALSE
    /\ CheckPrefixHasMinimumWords(<<"c", "a">>, 3)

\* C6: CheckPrefixHasMinimumWords is monotonic in its count: when it is true
\* of (p, k) it is true of (p, k') for every k' <= k.
C6_MonotonicInCount ==
    (CheckPrefixReturned /\ call.ret = TRUE) =>
        \A k \in (-2)..call.arg[2] : CheckPrefixHasMinimumWords(call.arg[1], k)

\* C6 witness: a call with a count of at least 3 has returned true.
C6_Witness ==
    /\ CheckPrefixReturned
    /\ call.ret = TRUE
    /\ call.arg[2] >= 3

\* the normalisation the contract speaks of: surrounding whitespace removed,
\* one character at a time from either end, and every letter in lower case
RECURSIVE StripLeft(_)
StripLeft(s) ==
    IF s # <<>> /\ Head(s) \in Space THEN StripLeft(Tail(s)) ELSE s

RECURSIVE StripRight(_)
StripRight(s) ==
    IF s # <<>> /\ s[Len(s)] \in Space THEN StripRight(SubSeq(s, 1, Len(s) - 1)) ELSE s

CasePairs == {<<"A", "a">>, <<"B", "b">>, <<"C", "c">>, <<"D", "d">>, <<"T", "t">>}

LowerCase(s) ==
    [i \in 1..Len(s) |->
        IF \E p \in CasePairs : p[1] = s[i]
        THEN (CHOOSE p \in CasePairs : p[1] = s[i])[2]
        ELSE s[i]]

NormalForm(raw) == LowerCase(StripRight(StripLeft(raw)))

C8_CorporaIndependent ==
    /\ \A w \in hist.nsfw \ hist.dict : ~checkUserWord(w)
    /\ \A w \in hist.dict \ hist.nsfw : ~isNsfwWord(w)
    /\ \A w \in hist.dict \cap hist.nsfw : checkUserWord(w) /\ isNsfwWord(w)
    /\ (call.op = "checkUserWord" /\ call.arg[1] \in hist.nsfw \ hist.dict)
          => call.ret = FALSE
    /\ (call.op = "isNsfwWord" /\ call.arg[1] \in hist.dict \ hist.nsfw)
          => call.ret = FALSE

\* C8 witness: isNsfwWord("dog") has returned false with "dog" in the
\* dictionary only, "bad" in the profanity tree only and "cat" in both.
C8_Witness ==
    /\ call.op = "isNsfwWord"
    /\ call.arg[1] = Dog
    /\ call.ret = FALSE
    /\ Dog \in hist.dict \ hist.nsfw
    /\ Bad \in hist.nsfw \ hist.dict
    /\ Cat \in hist.dict \cap hist.nsfw

\* C9: a call of Initialize made while the service is already initialized
\* changes neither the instance, nor the dictionary word set and tree, nor the
\* profanity word set and tree, nor the prefix list, whatever files it names.
C9_SecondInitializeIsNoOp ==
    [][(call'.op = "Initialize" /\ call'.ret = TRUE)
          => /\ instance' = instance
             /\ trie' = trie
             /\ nsfwTrie' = nsfwTrie
             /\ prefixList' = prefixList]_vars

\* C9 witness: Initialize has returned from a call made on an initialized
\* service that holds a dictionary, a profanity list and prefixes.
C9_Witness ==
    /\ call.op = "Initialize"
    /\ call.ret = TRUE
    /\ trie.words # {}
    /\ nsfwTrie.words # {}
    /\ prefixList # <<>>

\* C10: GetInstance before any Initialize reports the failure and returns the
\* null sentinel and creates no instance; after Initialize it returns the one
\* existing instance, the same for every call.
C10_GetInstance ==
    call.op = "GetInstance" =>
        /\ created = call.arg[1]
        /\ IF call.arg[1] = 0
           THEN call.ret.err /\ call.ret.ptr = NULL /\ instance = NULL
           ELSE /\ ~call.ret.err
                /\ call.ret.ptr = instance
                /\ instance # NULL
                /\ created = 1

\* C10 witness: GetInstance has returned the instance of an initialized
\* service.
C10_Witness ==
    /\ call.op = "GetInstance"
    /\ ~call.ret.err
    /\ call.ret.ptr # NULL
    /\ trie.words # {}

\* the fields of the service a caller can tell apart
ServiceState == IF instance = NULL THEN "Uninitialized" ELSE "Initialized"

\* C11: the service is Uninitialized (no instance was ever created) or
\* Initialized (exactly one was); the only step that changes the state is an
\* Initialize call taking Uninitialized to Initialized, and from Initialized no
\* operation returns to Uninitialized or creates a second instance.
C11_TwoStatesOneTransition ==
    [][/\ (instance = NULL) <=> (created = 0)
       /\ (instance' = NULL) <=> (created' = 0)
       /\ created' <= 1
       /\ (ServiceState' # ServiceState)
             => /\ ServiceState = "Uninitialized"
                /\ ServiceState' = "Initialized"
                /\ call'.op = "Initialize"
       /\ (ServiceState = "Initialized")
             => /\ instance' = instance
                /\ created' = created]_vars

\* C11 witness: on the initialized service the generator has run and
\* returned, with the one instance still in place.
C11_Witness ==
    /\ ServiceState = "Initialized"
    /\ created = 1
    /\ call.op = "GeneratePrefixFromRandomWord"
    /\ call.pc = "done"
    /\ call.ret # <<>>

\* C12: whenever GetInstance, UE_LoadDictionary or UE_LoadNSFW has run on the
\* Uninitialized service, it has returned with a reported failure and has not
\* used the absent instance.
C12_MisuseIsExplicitFailure ==
    (instance = NULL /\ call.op \in {"GetInstance", "UE_LoadDictionary", "UE_LoadNSFW"})
        => /\ call.pc = "done"
           /\ call.ret.err
           /\ call.op # "GetInstance" => ~call.ret.nullUsed

\* the state of the service and of the asset lists, the call record aside
Corpora == <<instance, created, trie, nsfwTrie, prefixList, dictionaryWords, nsfwList>>

\* a call of op starts in this step (and, for a query, returns in it)
Starts(op) == call.op = "none" /\ call'.op = op

\* C13: with an empty dictionary word set GeneratePrefixFromRandomWord returns
\* the empty string without entering its sampling loop and
\* CheckPrefixHasMinimumWords returns false for every prefix and every count;
\* with an empty prefix list getRandomPrefix returns the empty string; none of
\* these calls changes the tries, the lists or the instance.
C13_EmptyCorpusSentinel ==
    [][/\ (Starts("GeneratePrefixFromRandomWord") /\ trie.words = {})
             => /\ call'.pc = "done"
                /\ call'.ret = <<>>
                /\ Corpora' = Corpora
       /\ (Starts("CheckPrefixHasMinimumWords") /\ trie.words = {})
             => /\ call'.ret = FALSE
                /\ \A p \in PrefixProbes, k \in MinAmounts :
                      ~CheckPrefixHasMinimumWords(p, k)
                /\ Corpora' = Corpora
       /\ (Starts("getRandomPrefix") /\ prefixList = <<>>)
             => /\ call'.ret = <<>>
                /\ Corpora' = Corpora]_vars

\* C13 witness: on an initialized service with an empty dictionary and an
\* empty prefix list the generator has returned the empty string.
C13_Witness ==
    /\ instance # NULL
    /\ trie.words = {}
    /\ prefixList = <<>>
    /\ call.op = "GeneratePrefixFromRandomWord"
    /\ call.pc = "done"
    /\ call.ret = <<>>

\* C14: with a non-empty prefix list getRandomPrefix returns an entry of the
\* list, and every entry of the list is the result for some value of rand().
C14_RandomPrefixIsAnEntryAndEveryEntryPossible ==
    (instance # NULL /\ prefixList # <<>>)
        => /\ call.op = "getRandomPrefix" => call.ret \in Range(prefixList)
           /\ \A rnd \in 0..MaxRand : getRandomPrefix(rnd) \in Range(prefixList)
           /\ \A e \in Range(prefixList) : \E rnd \in 0..MaxRand : getRandomPrefix(rnd) = e

\* C14 witness: getRandomPrefix has returned the second of three loaded
\* prefixes.
C14_Witness ==
    /\ call.op = "getRandomPrefix"
    /\ Len(prefixList) = 3
    /\ call.ret = prefixList[2]
    /\ call.ret # prefixList[1]

\* a text of whitespace only, the empty text included
Blank(raw) == \A i \in 1..Len(raw) : raw[i] \in Space

\* C15: in every state reached through Initialize and the loaders the empty
\* word is stored in neither trie, and checkUserWord and isNsfwWord return
\* false for every input that is empty or whitespace only.
C15_BlankInputIsNeverFound ==
    instance # NULL
        => /\ <<>> \notin trie.words \cup nsfwTrie.words
           /\ \A raw \in RawInputs :
                 Blank(raw) => (trim(raw) = <<>> /\ ~checkUserWord(raw) /\ ~isNsfwWord(raw))
           /\ (call.op \in {"checkUserWord", "isNsfwWord"} /\ Blank(call.arg[1]))
                 => call.ret = FALSE

\* C15 witness: checkUserWord of two spaces has returned false on the
\* dictionary loaded from a file that holds an empty and a blank item.
C15_Witness ==
    /\ call.op = "checkUserWord"
    /\ call.arg[1] = <<" ", " ">>
    /\ call.ret = FALSE
    /\ trie.words = ScenarioWords

\* the alphabetic characters of a text
LetterCount(word) == Cardinality({i \in 1..Len(word) : word[i] \in Lower \cup Upper})

\* C16: countLetters(word) returns the number of alphabetic characters of
\* word, digits, punctuation and whitespace not counted, for every input
\* string; the result never exceeds the length of the input.
C16_CountLettersCountsAlphabetic ==
    call.op = "countLetters"
        => /\ call.pc = "done"
           /\ call.ret = LetterCount(call.arg[1])
           /\ call.ret <= Len(call.arg[1])

\* the operations of gameplay
GameplayOps ==
    {"checkUserWord", "isNsfwWord", "countLetters", "getRandomPrefix",
     "CheckPrefixHasMinimumWords", "GeneratePrefixFromRandomWord", "search", "startsWith"}

\* C17: on the initialized service no step of a gameplay operation changes the
\* dictionary tree or word set, the profanity tree or word set, or the prefix
\* list; a lookup of an absent word adds no node and no map entry.
C17_GameplayLeavesCorporaUnchanged ==
    [][(instance # NULL /\ call'.op \in GameplayOps)
          => /\ trie' = trie
             /\ nsfwTrie' = nsfwTrie
             /\ prefixList' = prefixList
             /\ Len(trie'.children) = Len(trie.children)]_vars

\* C17 witness: Trie::search has returned false for a word that is not
\* stored although its first character leads to a node.
C17_Witness ==
    /\ instance # NULL
    /\ call.op = "search"
    /\ call.ret = FALSE
    /\ Len(call.arg[1]) >= 2
    /\ call.arg[1] \notin trie.words
    /\ startsWith(trie, SubSeq(call.arg[1], 1, 1))

\* the generator has returned from its loop; randomWord of the last iteration
DrawnWord == call.local[1]

GenerateLoopReturned == GenerateReturned /\ call.local # <<>>

\* C21 as stated: with Randomize false and length >= 1 every prefix returned
\* from a non-empty dictionary has exactly `length` characters.
C21_ExactlyLengthCharacters ==
    (GenerateReturned /\ trie.words # {} /\ call.arg[2] = FALSE /\ call.arg[1] >= 1)
        => Len(call.ret) = call.arg[1]

\* C21 as amended: with Randomize false and length >= 1 every prefix returned
\* from a non-empty dictionary has at most `length` characters: as many as the
\* smaller of `length` and the length of the word drawn in the last iteration
\* when that word has at least 2 characters, and none when it has fewer.
C21_LengthClampedToWord ==
    (GenerateReturned /\ trie.words # {} /\ call.arg[2] = FALSE /\ call.arg[1] >= 1)
        => /\ call.local # <<>>
           /\ DrawnWord \in trie.words
           /\ Len(call.ret) <= call.arg[1]
           /\ IF Len(DrawnWord) >= 2
              THEN /\ Len(call.ret) = IF call.arg[1] <= Len(DrawnWord)
                                      THEN call.arg[1] ELSE Len(DrawnWord)
                   /\ HasPrefix(DrawnWord, call.ret)
              ELSE call.ret = <<>>

\* C21 witness: asked for 3 characters, the generator has drawn the word "ab"
\* and returned it, a prefix 26 words share.
C21_Witness ==
    /\ GenerateLoopReturned
    /\ call.arg = <<3, FALSE>>
    /\ DrawnWord = <<"a", "b">>
    /\ call.ret = <<"a", "b">>

\* C22: with Randomize true and length >= 1 every prefix returned from a
\* non-empty dictionary is the leading part of the word drawn in the accepting
\* iteration, and its number of characters lies in
\* [1, min(length, length of that word)].
C22_RandomLengthWithinBounds ==
    (GenerateReturned /\ trie.words # {} /\ call.arg[2] = TRUE /\ call.arg[1] >= 1)
        => /\ call.local # <<>>
           /\ HasPrefix(DrawnWord, call.ret)
           /\ 1 <= Len(call.ret)
           /\ Len(call.ret) <= call.arg[1]
           /\ Len(call.ret) <= Len(DrawnWord)

\* C23: an iteration that draws a word shorter than 2 characters never ends
\* the loop: every value returned from a non-empty dictionary is non-empty and
\* was derived in the last iteration from a drawn word of at least 2
\* characters.
C23_ShortWordsNeverEndTheLoop ==
    (GenerateReturned /\ trie.words # {})
        => /\ call.local # <<>>
           /\ Len(DrawnWord) >= 2
           /\ call.ret # <<>>
           /\ HasPrefix(DrawnWord, call.ret)

\* the candidates the generator can derive from the dictionary words of at
\* least 2 characters: of `length` characters, or of 1 to `length` characters
\* when Randomize is set, clamped to the word's length
Candidates(length, Randomize) ==
    {SubSeq(w, 1, IF n <= Len(w) THEN n ELSE Len(w)) :
        w \in {v \in trie.words : Len(v) >= 2},
        n \in IF Randomize THEN 1..length ELSE {length}}

\* C25: the loop has no iteration cap and no fallback: on a non-empty
\* dictionary in which no candidate derivable from any word is shared by at
\* least 20 words the generator never returns; so whenever it has returned,
\* some derivable candidate is shared by at least 20 words.
C25_NeverReturnsWithoutQualifyingCandidate ==
    (GenerateReturned /\ trie.words # {})
        => \E c \in Candidates(call.arg[1], call.arg[2]) : CountWithPrefix(c) >= MinWords

\* a word as the loaders are to store it: not empty, without quote, without
\* whitespace at either end, without uppercase letter
Sanitized(w) ==
    /\ w # <<>>
    /\ \A i \in 1..Len(w) : w[i] # Quote /\ w[i] \notin Upper
    /\ ~isspace(w[1])
    /\ ~isspace(w[Len(w)])

\* C29: every word the loaders have stored (in a trie's word set or in a
\* word list) is non-empty, quote-free, without leading or trailing
\* whitespace and without uppercase letter; the lookups normalise such a word
\* to itself, so checkUserWord finds every word of the dictionary trie and
\* isNsfwWord every word of the NSFW trie.
C29_StoredWordsAreSanitized ==
    /\ \A w \in trie.words \cup nsfwTrie.words
                \cup Range(dictionaryWords) \cup Range(nsfwList) :
          Sanitized(w) /\ Normalized(w) = w
    /\ instance # NULL =>
          /\ \A w \in trie.words : checkUserWord(w)
          /\ \A w \in nsfwTrie.words : isNsfwWord(w)

\* C29 witness: both loaders have stored words whose raw items held quotes,
\* whitespace and uppercase letters (" Cart"\t, "bAd" and "B ").
C29_Witness ==
    /\ instance # NULL
    /\ Cart \in trie.words
    /\ Bad \in nsfwTrie.words
    /\ <<"b">> \in nsfwTrie.words
    /\ Cart \in Range(dictionaryWords)
    /\ Bad \in Range(nsfwList)

-----------------------------------------------------------------------------
(* FairSpec: the service under fair random draws *)

\* every word a dictionary of the model can hold
AllWords == ScenarioWords \cup Range(BigWordList) \cup Range(DeepWordList)

\* the service as Initialize leaves it, for each word file
LoadedInit ==
    \E wordFilename \in WordFileNames :
        LET d == UE_LoadDictionary(NewTrie, <<>>, wordFilename)
            n == UE_LoadNSFW(NewTrie, <<>>, "nsfw.json")
        IN  /\ instance = 1
            /\ created = 1
            /\ trie = d.trie
            /\ dictionaryWords = d.list
            /\ prefixList = UE_LoadPrefixes(<<>>, "prefixes.json")
            /\ nsfwTrie = n.trie
            /\ nsfwList = n.list
            /\ hist = [dict |-> Range(d.list), nsfw |-> Range(n.list)]
            /\ inserts = 0
            /\ call = Idle
            /\ EditorInit

\* the generator called again and again
GenerateNext ==
    \/ \E length \in 1..MaxGenLen, Randomize \in BOOLEAN :
          GenerateStart(length, Randomize)
    \/ \E w \in trie.words, r \in 0..(MaxGenLen - 1) : GenerateIterate(w, r)
    \/ Return

\* the iteration that draws the dictionary word w, not randomizing
Draw(w) == w \in trie.words /\ GenerateIterate(w, 0)

\* fair draws: a dictionary word whose draw would change the state of the
\* loop is not passed over forever
FairSpec ==
    /\ LoadedInit
    /\ [][GenerateNext]_vars
    /\ \A w \in AllWords : WF_vars(Draw(w))

\* some dictionary word of at least 2 characters has its first
\* min(length, word length) characters shared by at least MinWords words
SomeCandidateQualifies(length) ==
    \E w \in trie.words :
        /\ Len(w) >= 2
        /\ CountWithPrefix(SubSeq(w, 1, IF length <= Len(w) THEN length ELSE Len(w)))
              >= MinWords

\* C24: under fair draws a call GeneratePrefixFromRandomWord(length, false)
\* that is in its loop eventually returns, whenever some dictionary word of at
\* least 2 characters yields a candidate at least 20 words share.
C24_GeneratorEventuallyReturns ==
    (/\ call.op = "GeneratePrefixFromRandomWord"
     /\ call.pc = "loop"
     /\ call.arg[2] = FALSE
     /\ SomeCandidateQualifies(call.arg[1]))
        ~> GenerateReturned

\* C24 witness: the generator, not randomizing, has returned the candidate of
\* a drawn word of at least 2 characters.
C24_Witness ==
    /\ GenerateLoopReturned
    /\ call.arg[2] = FALSE
    /\ SomeCandidateQualifies(call.arg[1])
    /\ Len(DrawnWord) >= 2
    /\ call.ret # <<>>

-----------------------------------------------------------------------------
(* DrawSpec: the index drawn by `rand() % wordSet.size()` *)

\* the largest value rand() returns, where it is smallest
RAND_MAX == 32767

\* rand() % wordSet.size(), rnd being the value of rand() and N the size
DrawIndex(N, rnd) == rnd % N

\* the word set sizes and the values of rand() of the model
DrawSizes == (1..MaxDrawSize) \cup {MinWords, RAND_MAX, RAND_MAX + 1, RAND_MAX + 2}
RandValues == (0..MaxRand) \cup {RAND_MAX - 1, RAND_MAX}

\* std::advance(it, rand() % wordSet.size()) on a word set of N words
CallDraw(N, rnd) ==
    /\ NoCallRunning
    /\ call' = Returned("draw", <<N, rnd>>, DrawIndex(N, rnd))
    /\ UNCHANGED <<instance, created, trie, nsfwTrie, prefixList, dictionaryWords,
                   nsfwList, hist, inserts, editorVars>>

DrawNext ==
    \/ \E N \in DrawSizes, rnd \in RandValues : CallDraw(N, rnd)
    \/ Return

DrawSpec == Init /\ [][DrawNext]_vars

\* C26: for every word set size N and every index i in 0..N-1 the draw
\* rand() % N can yield i, rand() ranging over 0..RAND_MAX with RAND_MAX as
\* small as 32767.
C26_EveryIndexCanBeDrawn ==
    call.op = "draw"
        => /\ call.ret \in 0..(call.arg[1] - 1)
           /\ {DrawIndex(call.arg[1], rnd) : rnd \in 0..RAND_MAX} = 0..(call.arg[1] - 1)

-----------------------------------------------------------------------------
(* UndoSpec: the editor's UndoRedoManager under any sequence of its operations *)

\* the editor changes the variable from prevValue to newValue and records the
\* change: PushUndo(entity, componentName, varName, var, prevValue, newValue),
\* prevValue being the "previous value before the change" and newValue the
\* "new value after the change" as the parameters are documented
PushUndo(prevValue, newValue) ==
    /\ prevValue = mVar
    /\ newValue # prevValue
    /\ mVar' = newValue
    /\ undoStack' = Limit(Append(undoStack, UndoAction(prevValue, newValue)))
    /\ redoStack' = <<>>
    /\ last' = [op |-> "PushUndo", before |-> NoUndo]
    /\ UNCHANGED <<component, lexiconVars>>

\* the editor removes the entity's component and records the removal:
\* PushUndoComponent(entity, removedComponent)
\* (in the model, on an undo stack of fewer than MaxRemovalDepth actions)
PushUndoComponent ==
    /\ component
    /\ Len(undoStack) < MaxRemovalDepth
    /\ component' = FALSE
    /\ undoStack' = Limit(Append(undoStack, UndoRemoveComponent))
    /\ redoStack' = <<>>
    /\ last' = [op |-> "PushUndoComponent", before |-> NoUndo]
    /\ UNCHANGED <<mVar, lexiconVars>>

\* UndoRedoManager::Undo
Undo ==
    /\ IF undoStack # <<>>
       THEN \E action \in {Back(undoStack)} :
               \E e \in {ActionUndo(action, Edited)} :
                   /\ undoStack' = PopBack(undoStack)
                   /\ mVar' = e.mVar
                   /\ component' = e.component
                   /\ redoStack' = Limit(Append(redoStack, action))
                   /\ last' = [op |-> "Undo", before |-> EditorState]
       ELSE /\ last' = [op |-> "Undo", before |-> NoUndo]
            /\ UNCHANGED <<undoStack, redoStack, mVar, component>>
    /\ UNCHANGED lexiconVars

\* UndoRedoManager::Redo; the history keeps the state before the Undo that
\* this call directly follows
Redo ==
    /\ IF redoStack # <<>>
       THEN \E action \in {Back(redoStack)} :
               \E e \in {ActionRedo(action, Edited)} :
                   /\ redoStack' = PopBack(redoStack)
                   /\ mVar' = e.mVar
                   /\ component' = e.component
                   /\ undoStack' = Limit(Append(undoStack, action))
       ELSE UNCHANGED <<undoStack, redoStack, mVar, component>>
    /\ last' = [op |-> "Redo",
                before |-> IF last.op = "Undo" THEN last.before ELSE NoUndo]
    /\ UNCHANGED lexiconVars

\* UndoRedoManager::ClearUndoRedo
ClearUndoRedo ==
    /\ undoStack' = <<>>
    /\ redoStack' = <<>>
    /\ last' = [op |-> "ClearUndoRedo", before |-> NoUndo]
    /\ UNCHANGED <<mVar, component, lexiconVars>>

UndoNext ==
    \/ \E prevValue, newValue \in BOOLEAN : PushUndo(prevValue, newValue)
    \/ PushUndoComponent
    \/ Undo
    \/ Redo
    \/ ClearUndoRedo

UndoSpec == Init /\ [][UndoNext]_vars

=============================================================================
